---- MODULE Spec2Model ----
(***************************************************************************)
(* Model of hw1/demo-app-1/backend/main.go: the startup readiness probe,   *)
(* the metrics middleware (instrumentHandler / statusRecorder), the ten    *)
(* CRUD handlers for users and orders, and the relational store as it is   *)
(* seen through the SQL statements the handlers issue.                     *)
(*                                                                         *)
(* A request is handled in two steps, each atomic with respect to the      *)
(* shared state: the routed handler run inside the middleware closure      *)
(* (main.go:98-101; it issues at most one SQL statement), then Record,     *)
(* the duration observation and the count increment under one label        *)
(* triple (main.go:102-105).  What precedes the statement in a request     *)
(* touches only the request's own variables, the store executes a          *)
(* statement atomically and the Prometheus vectors are internally          *)
(* synchronised, so these are the points at which concurrent requests      *)
(* interleave.                                                             *)
(***************************************************************************)
EXTENDS Integers, Sequences, FiniteSets, Bags, TLC

\* ------------------------------------------------------------------ bounds
\* Requests admitted over a run (each is handled once).
MaxRequests == 4
\* Requests that can be in flight at the same time.
MaxInFlight == 2

\* --------------------------------------------------------- program constants
ProbeAttempts == 10
ListLimit == 100
StatusOK == 200
StatusNoContent == 204
StatusBadRequest == 400
StatusNotFound == 404
StatusMethodNotAllowed == 405
StatusInternalServerError == 500

VARIABLES
    mainPc,           \* position of main(): "probe", "listen", "serving"
    i,                \* loop counter of the readiness probe
    lastLog,          \* the line most recently written to the log
    dbUp,             \* whether the store accepts connections and statements
    clock,            \* the store's now(), which advances with every statement
    users,            \* rows of table users
    orders,           \* rows of table orders
    userSeq,          \* last value issued by users' id sequence
    orderSeq,         \* last value issued by orders' id sequence
    requestDuration,  \* histogram vector: key -> number of observations
    requestCount,     \* counter vector: key -> count
    dbQueryDuration,  \* histogram: number of observations
    req,              \* the bag of requests in flight: handled, not yet recorded
    arrived,          \* requests that entered instrumentHandler so far
    workload,         \* the requests the clients of this run send
    hist              \* history: entities created, ids deleted, store seen up

vars == <<mainPc, i, lastLog, dbUp, clock, users, orders, userSeq, orderSeq,
          requestDuration, requestCount, dbQueryDuration, req, arrived,
          workload, hist>>

storeVars == <<clock, users, orders, userSeq, orderSeq, hist>>
tables == <<users, orders, userSeq, orderSeq, hist>>
envVars == <<dbUp, workload>>
metricVars == <<requestDuration, requestCount, dbQueryDuration>>
mainVars == <<mainPc, i, lastLog>>

\* ------------------------------------------------------------ conversions
Digits == <<"0", "1", "2", "3", "4", "5", "6", "7", "8", "9">>

IsDigit(c) == \E d \in 1..10 : Digits[d] = c

DigitVal(c) == (CHOOSE d \in 1..10 : Digits[d] = c) - 1

RECURSIVE ParseDigits(_, _)
ParseDigits(s, acc) ==
    IF s = <<>> THEN acc
    ELSE ParseDigits(Tail(s), acc * 10 + DigitVal(Head(s)))

\* The largest value of Go's int where it is 32 bits wide (GOARCH=386, arm);
\* where it is 64 bits wide the bound is 2^63-1 and Atoi is the same function
\* of longer numerals.
MaxInt == 2147483647

MaxIntDigits == <<"2", "1", "4", "7", "4", "8", "3", "6", "4", "7">>

RECURSIVE StripZeros(_)
StripZeros(ds) ==
    IF Len(ds) > 1 /\ Head(ds) = "0" THEN StripZeros(Tail(ds)) ELSE ds

RECURSIVE NumeralLeq(_, _)
\* Of two numerals of the same length, the first is not the larger.
NumeralLeq(a, b) ==
    IF a = <<>> THEN TRUE
    ELSE IF Head(a) # Head(b) THEN DigitVal(Head(a)) < DigitVal(Head(b))
    ELSE NumeralLeq(Tail(a), Tail(b))

\* The numeral's value is at most MaxInt.
FitsInt(ds) ==
    LET z == StripZeros(ds)
    IN  \/ Len(z) < Len(MaxIntDigits)
        \/ Len(z) = Len(MaxIntDigits) /\ NumeralLeq(z, MaxIntDigits)

\* strconv.Atoi with its error dropped (id, _ := strconv.Atoi(idStr)): an
\* optional sign followed by one or more digits.  Anything else is a syntax
\* error, with which Atoi returns 0; a numeral out of the range of int is a
\* range error, with which it returns the int of largest magnitude and the
\* numeral's sign.
Atoi(s) ==
    LET signed == s # <<>> /\ Head(s) \in {"+", "-"}
        neg == signed /\ Head(s) = "-"
        ds == IF signed THEN Tail(s) ELSE s
    IN  IF ds = <<>> \/ \E k \in 1..Len(ds) : ~IsDigit(ds[k]) THEN 0
        ELSE IF ~FitsInt(ds) THEN (IF neg THEN (0 - MaxInt) - 1 ELSE MaxInt)
        ELSE IF neg THEN 0 - ParseDigits(ds, 0)
        ELSE ParseDigits(ds, 0)

RECURSIVE Itoa(_)
\* strconv.Itoa for the non-negative numbers the middleware formats.
Itoa(n) ==
    IF n < 10 THEN <<Digits[n + 1]>>
    ELSE Itoa(n \div 10) \o <<Digits[(n % 10) + 1]>>

\* ---------------------------------------------------------------- requests
\* A request body: undecodable (empty, malformed or ill-typed JSON, for which
\* json.Decoder.Decode returns an error) or a JSON object, given by the
\* members it carries.
UndecodableBody == [decodable |-> FALSE, obj |-> <<>>]

JSONBody(o) == [decodable |-> TRUE, obj |-> o]

\* A decode error the handler does not look at.
DecodeErrIgnored(body) == FALSE

\* err != nil after json.NewDecoder(r.Body).Decode(&v)
DecodeErr(body) == ~body.decodable

\* The member k of a decoded JSON object, or the Go zero value z of the
\* struct field when the object does not carry it.
Member(body, k, z) == IF k \in DOMAIN body.obj THEN body.obj[k] ELSE z

\* Bodies: a full record that also carries id and created_at, and a partial
\* one (no email; no user_id and description) that carries them too.
UserA == JSONBody([name |-> "A", email |-> "a@x.com", id |-> 7, created_at |-> 9])

UserB == JSONBody([name |-> "B", id |-> 8, created_at |-> 9])

OrderA ==
    JSONBody([user_id |-> 1, amount |-> 50, description |-> "k6 load",
              id |-> 7, created_at |-> 9])

OrderB == JSONBody([amount |-> -3, id |-> 8, created_at |-> 9])

Request(m, p, b) == [method |-> m, path |-> p, body |-> b]

Post(res, b) == Request("POST", <<"api", res>>, b)

List(res) == Request("GET", <<"api", res>>, UndecodableBody)

\* Path identifiers are given as the characters of the path segment.
Get(res, idStr) == Request("GET", <<"api", res, idStr>>, UndecodableBody)

Put(res, idStr, b) == Request("PUT", <<"api", res, idStr>>, b)

Delete(res, idStr) == Request("DELETE", <<"api", res, idStr>>, UndecodableBody)

\* The clients of a run send the requests of one workload: the life cycle of
\* one entity, operations on an identifier that was never issued, listing,
\* requests that fail before a handler or before the store, gets of two
\* identifiers, and operations on path identifiers that Atoi rejects.
Workloads ==
    { "user", "order", "userMissing", "orderMissing", "userList", "orderList",
      "mixed", "userIds", "userBadId", "orderBadId" }

\* Path identifiers that are not integers (syntax errors of Atoi) and a
\* numeral beyond the range of int (a range error of Atoi).
NotANumber == <<"x">>

DigitThenLetter == <<"1", "x">>

TooLarge == <<"9", "9", "9", "9", "9", "9", "9", "9", "9", "9">>

InputsOf(w) ==
    CASE w = "user" ->
           { Post("users", UserA), Get("users", <<"1">>),
             Put("users", <<"1">>, UserB), Delete("users", <<"1">>) }
      [] w = "order" ->
           { Post("orders", OrderA), Get("orders", <<"1">>),
             Put("orders", <<"1">>, OrderB), Delete("orders", <<"1">>) }
      [] w = "userMissing" ->
           { Post("users", UserA), Get("users", <<"9">>),
             Put("users", <<"9">>, UserB), Delete("users", <<"9">>) }
      [] w = "orderMissing" ->
           { Post("orders", OrderA), Get("orders", <<"9">>),
             Put("orders", <<"9">>, OrderB), Delete("orders", <<"9">>) }
      [] w = "userList" ->
           { Post("users", UserA), Post("users", UserB), List("users"),
             Delete("users", <<"1">>) }
      [] w = "orderList" ->
           { Post("orders", OrderA), Post("orders", OrderB), List("orders"),
             Delete("orders", <<"1">>) }
      [] w = "mixed" ->
           { Request("GET", <<"metrics">>, UndecodableBody),
             Request("GET", <<"nope">>, UndecodableBody),
             Request("PATCH", <<"api", "users">>, UndecodableBody),
             Post("users", UndecodableBody),
             Put("users", <<"x">>, UndecodableBody),
             Post("orders", UndecodableBody),
             Put("orders", <<"x">>, UndecodableBody),
             Get("orders", <<"1">>) }
      [] w = "userIds" ->
           { Post("users", UserA), Get("users", <<"1">>),
             Get("users", <<"2">>) }
      [] w = "userBadId" ->
           { Post("users", UserA), Get("users", DigitThenLetter),
             Put("users", DigitThenLetter, UserB),
             Delete("users", DigitThenLetter) }
      [] w = "orderBadId" ->
           { Post("orders", OrderA), Delete("orders", NotANumber),
             Get("orders", TooLarge) }

\* The router built in main(): the handler a request is dispatched to.
Route(m, p) ==
    IF p = <<"metrics">> THEN "metrics"
    ELSE IF Len(p) = 2 /\ p[1] = "api" /\ p[2] = "users" THEN
        CASE m = "POST" -> "createUser"
          [] m = "GET" -> "listUsers"
          [] OTHER -> "methodNotAllowed"
    ELSE IF Len(p) = 3 /\ p[1] = "api" /\ p[2] = "users" /\ p[3] # <<>> THEN
        CASE m = "GET" -> "getUser"
          [] m = "PUT" -> "updateUser"
          [] m = "DELETE" -> "deleteUser"
          [] OTHER -> "methodNotAllowed"
    ELSE IF Len(p) = 2 /\ p[1] = "api" /\ p[2] = "orders" THEN
        CASE m = "POST" -> "createOrder"
          [] m = "GET" -> "listOrders"
          [] OTHER -> "methodNotAllowed"
    ELSE IF Len(p) = 3 /\ p[1] = "api" /\ p[2] = "orders" /\ p[3] # <<>> THEN
        CASE m = "GET" -> "getOrder"
          [] m = "PUT" -> "updateOrder"
          [] m = "DELETE" -> "deleteOrder"
          [] OTHER -> "methodNotAllowed"
    ELSE "notFound"

\* mux.Vars(r)["id"]
PathId(p) == p[3]

NoOutput == [kind |-> "none", val |-> <<>>]

\* The request in the closure of instrumentHandler before h.ServeHTTP:
\* rw := &statusRecorder{ResponseWriter: w, status: 200}.  wire is the status
\* sent to the client (0: none yet), out the body written.
Recorded(in) ==
    [method |-> in.method, path |-> in.path, body |-> in.body,
     status |-> StatusOK, wire |-> 0, out |-> NoOutput, stmts |-> <<>>]

\* A statement that is sent again after it was sent.
SentRetried(rq, sql, args) ==
    [rq EXCEPT !.stmts = Append(Append(@, <<sql, args>>), <<sql, args>>)]

\* The handler of rq passed a statement and its arguments to s.db: stmts
\* lists what the request has sent to the store.
Sent(rq, sql, args) == [rq EXCEPT !.stmts = Append(@, <<sql, args>>)]

Handler(rq) == Route(rq.method, rq.path)

\* A recorder that does not override WriteHeader.
WriteHeaderUnrecorded(rq, code) == [rq EXCEPT !.wire = code]

\* statusRecorder.WriteHeader
WriteHeader(rq, code) == [rq EXCEPT !.status = code, !.wire = code]

\* Write on the wrapped ResponseWriter: the embedded writer sends an implicit
\* 200 when no header was written; the recorder's WriteHeader is not called.
Write(rq, o) ==
    [rq EXCEPT !.wire = IF rq.wire = 0 THEN StatusOK ELSE rq.wire, !.out = o]

\* http.Error(w, msg, code)
Error(rq, msg, code) ==
    Write(WriteHeader(rq, code), [kind |-> "text", val |-> msg])

\* json.NewEncoder(w).Encode(v)
Encode(rq, v) == Write(rq, [kind |-> "json", val |-> v])

\* The same for a slice.
EncodeAll(rq, vs) == Write(rq, [kind |-> "jsonArray", val |-> vs])

\* ------------------------------------------------------------------ store
\* Each operator below is one SQL statement of main.go, evaluated on the
\* current tables.  The store executes a statement atomically.

\* INSERT INTO users (name, email) VALUES ($1, $2) RETURNING id, created_at
InsertUser(name, email) ==
    [id |-> userSeq + 1, name |-> name, email |-> email, created_at |-> clock]

\* The same without its WHERE clause.
SelectUserAny(id) == users

\* SELECT id, name, email, created_at FROM users WHERE id=$1
SelectUser(id) == { row \in users : row.id = id }

\* An update that inserts the row when none matches.
UpdateUsersUpsert(name, email, id) ==
    IF \E row \in users : row.id = id
    THEN { IF row.id = id THEN [row EXCEPT !.name = name, !.email = email]
           ELSE row : row \in users }
    ELSE users \cup {[id |-> id, name |-> name, email |-> email,
                      created_at |-> clock]}

\* An update that leaves a column alone when its argument is the zero value.
UpdateUsersPartial(name, email, id) ==
    { IF row.id = id
      THEN [row EXCEPT !.name = IF name = "" THEN @ ELSE name,
                       !.email = IF email = "" THEN @ ELSE email]
      ELSE row : row \in users }

\* An update that also sets created_at.
UpdateUsersTouch(name, email, id) ==
    { IF row.id = id
      THEN [row EXCEPT !.name = name, !.email = email, !.created_at = clock]
      ELSE row : row \in users }

\* UPDATE users SET name=$1, email=$2 WHERE id=$3
UpdateUsers(name, email, id) ==
    { IF row.id = id THEN [row EXCEPT !.name = name, !.email = email] ELSE row :
        row \in users }

\* A delete that matches no row.
DeleteUsersNone(id) == users

\* A delete without its WHERE clause.
DeleteUsersAll(id) == {}

\* DELETE FROM users WHERE id=$1
DeleteUsers(id) == { row \in users : row.id # id }

\* INSERT INTO orders (user_id, amount, description) VALUES ($1,$2,$3)
\* RETURNING id, created_at
InsertOrder(user_id, amount, description) ==
    [id |-> orderSeq + 1, user_id |-> user_id, amount |-> amount,
     description |-> description, created_at |-> clock]

\* SELECT id, user_id, amount, description, created_at FROM orders WHERE id=$1
SelectOrder(id) == { row \in orders : row.id = id }

\* UPDATE orders SET user_id=$1, amount=$2, description=$3 WHERE id=$4
UpdateOrders(user_id, amount, description, id) ==
    { IF row.id = id
      THEN [row EXCEPT !.user_id = user_id, !.amount = amount,
                       !.description = description]
      ELSE row : row \in orders }

\* DELETE FROM orders WHERE id=$1
DeleteOrders(id) == { row \in orders : row.id # id }

RECURSIVE OrderByIdDesc(_)
\* ORDER BY id DESC
OrderByIdDesc(rows) ==
    IF rows = {} THEN <<>>
    ELSE LET top == CHOOSE x \in rows : \A y \in rows : y.id <= x.id
         IN  <<top>> \o OrderByIdDesc(rows \ {top})

\* LIMIT n
Limit(s, n) == IF Len(s) <= n THEN s ELSE SubSeq(s, 1, n)

\* SELECT id, name, email, created_at FROM users ORDER BY id DESC LIMIT 100
SelectUsers == Limit(OrderByIdDesc(users), ListLimit)

\* SELECT id, user_id, amount, description, created_at FROM orders
\* ORDER BY id DESC LIMIT 100
SelectOrders == Limit(OrderByIdDesc(orders), ListLimit)

\* --------------------------------------------------------------- entities
\* var u User after json.NewDecoder(r.Body).Decode(&u): members the body does
\* not carry keep the zero value.
DecodeUser(body) ==
    [ID |-> Member(body, "id", 0), Name |-> Member(body, "name", ""),
     Email |-> Member(body, "email", ""),
     CreatedAt |-> Member(body, "created_at", 0)]

DecodeOrder(body) ==
    [ID |-> Member(body, "id", 0), UserID |-> Member(body, "user_id", 0),
     Amount |-> Member(body, "amount", 0),
     Description |-> Member(body, "description", ""),
     CreatedAt |-> Member(body, "created_at", 0)]

\* The returned row is not scanned into the entity.
ScanUserKeyDropped(u, row) == u

\* Scan(&u.ID, &u.CreatedAt) of the row an insert returns.
ScanUserKey(u, row) == [u EXCEPT !.ID = row.id, !.CreatedAt = row.created_at]

ScanOrderKey(o, row) == [o EXCEPT !.ID = row.id, !.CreatedAt = row.created_at]

\* A scan with two destinations exchanged.
ScanUserSwapped(row) ==
    [ID |-> row.id, Name |-> row.email, Email |-> row.name,
     CreatedAt |-> row.created_at]

\* Scan(&u.ID, &u.Name, &u.Email, &u.CreatedAt) of a selected row.
ScanUser(row) ==
    [ID |-> row.id, Name |-> row.name, Email |-> row.email,
     CreatedAt |-> row.created_at]

ScanOrder(row) ==
    [ID |-> row.id, UserID |-> row.user_id, Amount |-> row.amount,
     Description |-> row.description, CreatedAt |-> row.created_at]

\* The JSON object of a User / an Order, by the struct tags.
UserJSON(u) ==
    [id |-> u.ID, name |-> u.Name, email |-> u.Email, created_at |-> u.CreatedAt]

OrderJSON(o) ==
    [id |-> o.ID, user_id |-> o.UserID, amount |-> o.Amount,
     description |-> o.Description, created_at |-> o.CreatedAt]

\* The rows a list handler appends before rows.Next() returns false: all of
\* them, or the first k when the connection is lost while they are read
\* (rows.Err() is not consulted after the loop).
RowsRead(rows) == { SubSeq(rows, 1, k) : k \in 0..Len(rows) }

StoreErrorText == "store error"

\* ---------------------------------------------------------------- metrics
NoSeries == [k \in {} |-> 0]

\* WithLabelValues(method, path, strconv.Itoa(status)): the series' key.
Labels(rq) == <<rq.method, rq.path, Itoa(rq.status)>>

\* A read-modify-write that loses the update to a series that already counts.
AddOneLost(vec, key) ==
    IF key \in DOMAIN vec THEN vec
    ELSE [k \in DOMAIN vec \cup {key} |-> IF k = key THEN 1 ELSE vec[k]]

\* vec.WithLabelValues(key).Inc() and .Observe(dur): the series is created
\* at 0 on first use and advanced by one.
AddOne(vec, key) ==
    IF key \in DOMAIN vec THEN [vec EXCEPT ![key] = @ + 1]
    ELSE [k \in DOMAIN vec \cup {key} |-> IF k = key THEN 1 ELSE vec[k]]

RECURSIVE SumOver(_, _)
SumOver(vec, keys) ==
    IF keys = {} THEN 0
    ELSE LET k == CHOOSE x \in keys : TRUE
         IN  vec[k] + SumOver(vec, keys \ {k})

\* The total over all series of a vector.
Total(vec) == SumOver(vec, DOMAIN vec)

\* ---------------------------------------------------------------- history
\* hist records, for the properties below, the entity each create call
\* returned, kept until a statement updates or deletes its identifier, the
\* issued identifiers a delete statement was executed on, and whether the
\* store has accepted connections at any time since the process started.
NoEntities == [k \in {} |-> 0]

Remember(f, id, e) == [k \in DOMAIN f \cup {id} |-> IF k = id THEN e ELSE f[k]]

Forget(f, id) == [k \in DOMAIN f \ {id} |-> f[k]]

\* ------------------------------------------------------------------- main
Init ==
    /\ mainPc = "probe"
    /\ i = 0
    /\ lastLog = <<>>
    /\ dbUp \in BOOLEAN
    /\ clock = 1
    /\ users = {}
    /\ orders = {}
    /\ userSeq = 0
    /\ orderSeq = 0
    /\ requestDuration = NoSeries
    /\ requestCount = NoSeries
    /\ dbQueryDuration = 0
    /\ req = EmptyBag
    /\ arrived = 0
    /\ workload \in Workloads
    /\ hist = [createdUsers |-> NoEntities, createdOrders |-> NoEntities,
               deletedUsers |-> {}, deletedOrders |-> {}, storeSeenUp |-> dbUp]

\* A ping whose result is not looked at: the loop never breaks.
PingErrIgnored(up) == TRUE

\* err != nil after db.Ping(), on a store that accepts connections or not.
PingErr(up) == ~up

\* One iteration of the readiness loop: db.Ping(), then break on success, or
\* log, sleep and i++.
Ping ==
    /\ mainPc = "probe"
    /\ i < ProbeAttempts
    /\ IF ~PingErr(dbUp)
       THEN /\ mainPc' = "listen"
            /\ i' = 0
            /\ UNCHANGED lastLog
       ELSE /\ lastLog' = <<"waiting for db...", i>>
            /\ i' = i + 1
            /\ UNCHANGED mainPc
    /\ UNCHANGED <<envVars, storeVars, metricVars, req, arrived>>

\* A probe that gives up: the process exits after the last failed attempt.
ProbeExhaustedFatal ==
    /\ mainPc = "probe"
    /\ i >= ProbeAttempts
    /\ mainPc' = "exited"
    /\ i' = 0
    /\ UNCHANGED <<lastLog, envVars, storeVars, metricVars, req, arrived>>

\* The loop condition fails after the last attempt.
ProbeExhausted ==
    /\ mainPc = "probe"
    /\ i >= ProbeAttempts
    /\ mainPc' = "listen"
    /\ i' = 0
    /\ UNCHANGED <<lastLog, envVars, storeVars, metricVars, req, arrived>>

\* Router set-up, log.Println("listening on", addr), http.ListenAndServe.
Listen ==
    /\ mainPc = "listen"
    /\ mainPc' = "serving"
    /\ lastLog' = <<"listening on", ":8081">>
    /\ UNCHANGED <<i, envVars, storeVars, metricVars, req, arrived>>

\* ------------------------------------------------------------ environment
StoreDown ==
    /\ dbUp
    /\ dbUp' = FALSE
    /\ UNCHANGED <<mainVars, workload, storeVars, metricVars, req, arrived>>

StoreUp ==
    /\ ~dbUp
    /\ dbUp' = TRUE
    /\ hist' = [hist EXCEPT !.storeSeenUp = TRUE]
    /\ UNCHANGED <<mainVars, workload, clock, users, orders, userSeq, orderSeq,
                   metricVars, req, arrived>>

\* ------------------------------------------------------------- middleware
\* After h.ServeHTTP returns:
\* requestDuration.WithLabelValues(...).Observe(dur) and
\* requestCount.WithLabelValues(...).Inc(); then the closure returns.
Record ==
    \E rq \in BagToSet(req) :
      /\ requestDuration' = AddOne(requestDuration, Labels(rq))
      /\ requestCount' = AddOne(requestCount, Labels(rq))
      /\ req' = req (-) SetToBag({rq})
      /\ UNCHANGED <<mainVars, envVars, storeVars, dbQueryDuration, arrived>>

\* --------------------------------------------------------------- handlers
\* Each handler is one action: the whole function body, from the decode of
\* the request to the response it writes, with the statement it issues and
\* the dbQueryDuration observation that follows the statement.

\* The requests of the workload that the router dispatches to handler h.
Arrivals(h) == { in \in InputsOf(workload) : Route(in.method, in.path) = h }

\* A request can enter the middleware: the server is listening.
Admit ==
    /\ mainPc = "serving"
    /\ arrived < MaxRequests
    /\ BagCardinality(req) < MaxInFlight
    /\ arrived' = arrived + 1

\* h.ServeHTTP(rw, r) returns with the response rq holds.
Respond(rq) == req' = req (+) SetToBag({rq})

\* A latency that is observed on both sides of the error check.
ObserveQueryTwice ==
    /\ dbQueryDuration' = dbQueryDuration + 2
    /\ clock' = clock + 1

\* A statement was sent to the store, and time passed:
\* dbQueryDuration.Observe(time.Since(start).Seconds())
ObserveQuery ==
    /\ dbQueryDuration' = dbQueryDuration + 1
    /\ clock' = clock + 1

createUser ==
    /\ Admit
    /\ \E in \in Arrivals("createUser") :
       LET rq == Recorded(in)
           u == DecodeUser(rq.body)
           row == InsertUser(u.Name, u.Email)
           q == Sent(rq, "INSERT INTO users", <<u.Name, u.Email>>)
       IN  IF DecodeErr(rq.body)
           THEN /\ Respond(Error(rq, "bad request", StatusBadRequest))
                /\ UNCHANGED <<storeVars, dbQueryDuration>>
           ELSE /\ ObserveQuery
                /\ IF ~dbUp
                   THEN /\ Respond(Error(q, StoreErrorText,
                                         StatusInternalServerError))
                        /\ UNCHANGED tables
                   ELSE /\ users' = users \cup {row}
                        /\ userSeq' = row.id
                        /\ Respond(Encode(q, UserJSON(ScanUserKey(u, row))))
                        /\ hist' = [hist EXCEPT !.createdUsers =
                                     Remember(@, row.id,
                                              UserJSON(ScanUserKey(u, row)))]
                        /\ UNCHANGED <<orders, orderSeq>>
    /\ UNCHANGED <<mainVars, envVars, requestDuration, requestCount>>

listUsers ==
    /\ Admit
    /\ \E in \in Arrivals("listUsers") :
       LET rq == Recorded(in)
           q == Sent(rq, "SELECT FROM users", <<>>)
       IN  /\ ObserveQuery
           /\ IF ~dbUp
              THEN Respond(Error(q, StoreErrorText,
                                 StatusInternalServerError))
              ELSE \E got \in RowsRead(SelectUsers) :
                     Respond(EncodeAll(q, [k \in 1..Len(got) |->
                                             UserJSON(ScanUser(got[k]))]))
    /\ UNCHANGED <<mainVars, envVars, tables, requestDuration, requestCount>>

getUser ==
    /\ Admit
    /\ \E in \in Arrivals("getUser") :
       LET rq == Recorded(in)
           id == Atoi(PathId(rq.path))
           found == SelectUser(id)
           q == Sent(rq, "SELECT FROM users WHERE id", <<id>>)
       IN  /\ ObserveQuery
           /\ IF ~dbUp
              THEN Respond(Error(q, StoreErrorText,
                                 StatusInternalServerError))
              ELSE IF found = {}
              THEN Respond(Error(q, "not found", StatusNotFound))
              ELSE \E row \in found :
                     Respond(Encode(q, UserJSON(ScanUser(row))))
    /\ UNCHANGED <<mainVars, envVars, tables, requestDuration, requestCount>>

updateUser ==
    /\ Admit
    /\ \E in \in Arrivals("updateUser") :
       LET rq == Recorded(in)
           id == Atoi(PathId(rq.path))
           u == DecodeUser(rq.body)
           q == Sent(rq, "UPDATE users", <<u.Name, u.Email, id>>)
       IN  IF DecodeErr(rq.body)
           THEN /\ Respond(Error(rq, "bad request", StatusBadRequest))
                /\ UNCHANGED <<storeVars, dbQueryDuration>>
           ELSE /\ ObserveQuery
                /\ IF ~dbUp
                   THEN /\ Respond(Error(q, StoreErrorText,
                                         StatusInternalServerError))
                        /\ UNCHANGED tables
                   ELSE /\ users' = UpdateUsers(u.Name, u.Email, id)
                        /\ Respond(WriteHeader(q, StatusNoContent))
                        /\ hist' = [hist EXCEPT !.createdUsers = Forget(@, id)]
                        /\ UNCHANGED <<orders, userSeq, orderSeq>>
    /\ UNCHANGED <<mainVars, envVars, requestDuration, requestCount>>

deleteUser ==
    /\ Admit
    /\ \E in \in Arrivals("deleteUser") :
       LET rq == Recorded(in)
           id == Atoi(PathId(rq.path))
           q == Sent(rq, "DELETE FROM users", <<id>>)
       IN  /\ ObserveQuery
           /\ IF ~dbUp
              THEN /\ Respond(Error(q, StoreErrorText,
                                    StatusInternalServerError))
                   /\ UNCHANGED tables
              ELSE /\ users' = DeleteUsers(id)
                   /\ Respond(WriteHeader(q, StatusNoContent))
                   /\ hist' = [hist EXCEPT
                                !.createdUsers = Forget(@, id),
                                !.deletedUsers = @ \cup ({id} \cap 1..userSeq)]
                   /\ UNCHANGED <<orders, userSeq, orderSeq>>
    /\ UNCHANGED <<mainVars, envVars, requestDuration, requestCount>>

createOrder ==
    /\ Admit
    /\ \E in \in Arrivals("createOrder") :
       LET rq == Recorded(in)
           o == DecodeOrder(rq.body)
           row == InsertOrder(o.UserID, o.Amount, o.Description)
           q == Sent(rq, "INSERT INTO orders",
                     <<o.UserID, o.Amount, o.Description>>)
       IN  IF DecodeErr(rq.body)
           THEN /\ Respond(Error(rq, "bad request", StatusBadRequest))
                /\ UNCHANGED <<storeVars, dbQueryDuration>>
           ELSE /\ ObserveQuery
                /\ IF ~dbUp
                   THEN /\ Respond(Error(q, StoreErrorText,
                                         StatusInternalServerError))
                        /\ UNCHANGED tables
                   ELSE /\ orders' = orders \cup {row}
                        /\ orderSeq' = row.id
                        /\ Respond(Encode(q, OrderJSON(ScanOrderKey(o, row))))
                        /\ hist' = [hist EXCEPT !.createdOrders =
                                     Remember(@, row.id,
                                              OrderJSON(ScanOrderKey(o, row)))]
                        /\ UNCHANGED <<users, userSeq>>
    /\ UNCHANGED <<mainVars, envVars, requestDuration, requestCount>>

listOrders ==
    /\ Admit
    /\ \E in \in Arrivals("listOrders") :
       LET rq == Recorded(in)
           q == Sent(rq, "SELECT FROM orders", <<>>)
       IN  /\ ObserveQuery
           /\ IF ~dbUp
              THEN Respond(Error(q, StoreErrorText,
                                 StatusInternalServerError))
              ELSE \E got \in RowsRead(SelectOrders) :
                     Respond(EncodeAll(q, [k \in 1..Len(got) |->
                                             OrderJSON(ScanOrder(got[k]))]))
    /\ UNCHANGED <<mainVars, envVars, tables, requestDuration, requestCount>>

getOrder ==
    /\ Admit
    /\ \E in \in Arrivals("getOrder") :
       LET rq == Recorded(in)
           id == Atoi(PathId(rq.path))
           found == SelectOrder(id)
           q == Sent(rq, "SELECT FROM orders WHERE id", <<id>>)
       IN  /\ ObserveQuery
           /\ IF ~dbUp
              THEN Respond(Error(q, StoreErrorText,
                                 StatusInternalServerError))
              ELSE IF found = {}
              THEN Respond(Error(q, "not found", StatusNotFound))
              ELSE \E row \in found :
                     Respond(Encode(q, OrderJSON(ScanOrder(row))))
    /\ UNCHANGED <<mainVars, envVars, tables, requestDuration, requestCount>>

updateOrder ==
    /\ Admit
    /\ \E in \in Arrivals("updateOrder") :
       LET rq == Recorded(in)
           id == Atoi(PathId(rq.path))
           o == DecodeOrder(rq.body)
           q == Sent(rq, "UPDATE orders",
                     <<o.UserID, o.Amount, o.Description, id>>)
       IN  IF DecodeErr(rq.body)
           THEN /\ Respond(Error(rq, "bad request", StatusBadRequest))
                /\ UNCHANGED <<storeVars, dbQueryDuration>>
           ELSE /\ ObserveQuery
                /\ IF ~dbUp
                   THEN /\ Respond(Error(q, StoreErrorText,
                                         StatusInternalServerError))
                        /\ UNCHANGED tables
                   ELSE /\ orders' = UpdateOrders(o.UserID, o.Amount,
                                                  o.Description, id)
                        /\ Respond(WriteHeader(q, StatusNoContent))
                        /\ hist' = [hist EXCEPT !.createdOrders = Forget(@, id)]
                        /\ UNCHANGED <<users, userSeq, orderSeq>>
    /\ UNCHANGED <<mainVars, envVars, requestDuration, requestCount>>

deleteOrder ==
    /\ Admit
    /\ \E in \in Arrivals("deleteOrder") :
       LET rq == Recorded(in)
           id == Atoi(PathId(rq.path))
           q == Sent(rq, "DELETE FROM orders", <<id>>)
       IN  /\ ObserveQuery
           /\ IF ~dbUp
              THEN /\ Respond(Error(q, StoreErrorText,
                                    StatusInternalServerError))
                   /\ UNCHANGED tables
              ELSE /\ orders' = DeleteOrders(id)
                   /\ Respond(WriteHeader(q, StatusNoContent))
                   /\ hist' = [hist EXCEPT
                                !.createdOrders = Forget(@, id),
                                !.deletedOrders = @ \cup ({id} \cap 1..orderSeq)]
                   /\ UNCHANGED <<users, userSeq, orderSeq>>
    /\ UNCHANGED <<mainVars, envVars, requestDuration, requestCount>>

\* promhttp.Handler(): the scrape is answered with the exposition text.
metrics ==
    /\ Admit
    /\ \E in \in Arrivals("metrics") :
         Respond(Write(Recorded(in), [kind |-> "metrics", val |-> <<>>]))
    /\ UNCHANGED <<mainVars, envVars, storeVars, metricVars>>

\* The router's answer to a path no route matches.
notFound ==
    /\ Admit
    /\ \E in \in Arrivals("notFound") :
         Respond(Error(Recorded(in), "404 page not found", StatusNotFound))
    /\ UNCHANGED <<mainVars, envVars, storeVars, metricVars>>

\* The router's answer to a path whose routes take other methods.
methodNotAllowed ==
    /\ Admit
    /\ \E in \in Arrivals("methodNotAllowed") :
         Respond(WriteHeader(Recorded(in), StatusMethodNotAllowed))
    /\ UNCHANGED <<mainVars, envVars, storeVars, metricVars>>

\* ---------------------------------------------------------- specification
Next ==
    \/ Ping
    \/ ProbeExhausted
    \/ Listen
    \/ StoreDown
    \/ StoreUp
    \/ createUser
    \/ listUsers
    \/ getUser
    \/ updateUser
    \/ deleteUser
    \/ createOrder
    \/ listOrders
    \/ getOrder
    \/ updateOrder
    \/ deleteOrder
    \/ metrics
    \/ notFound
    \/ methodNotAllowed
    \/ Record

Spec == Init /\ [][Next]_vars

\* main() is a goroutine that keeps running: db.Ping() and time.Sleep return,
\* so the step main is at is eventually taken.
FairSpec ==
    Spec /\ WF_vars(Ping) /\ WF_vars(ProbeExhausted) /\ WF_vars(Listen)

\* ============================================================== properties
\* The request rq was handled in this step: its handler returned and it
\* joined the requests in flight.
Handled(rq) == CopiesIn(rq, req') > CopiesIn(rq, req)

InFlight == BagToSet(req)

\* The identifier a get, update or delete handler passes to its statement.
IdOf(rq) == Atoi(PathId(rq.path))

\* ---- C1 ----------------------------------------------------------------
\* C1: every request that entered instrumentHandler (routed, unrouted or the
\* /metrics scrape, answered with success or with an error) is recorded
\* exactly once: the request counters, summed over all (method, path, status)
\* series, equal the number of requests that arrived minus those still in
\* flight, each series of the duration histogram holds as many observations
\* as the counter of the same key counts, and when no request is in flight
\* the counters sum to exactly the number of requests that arrived.
C1_OneObservationPerRequest ==
    /\ Total(requestCount) + BagCardinality(req) = arrived
    /\ DOMAIN requestDuration = DOMAIN requestCount
    /\ \A key \in DOMAIN requestCount : requestDuration[key] = requestCount[key]
    /\ req = EmptyBag => Total(requestCount) = arrived

\* Three or more requests, among them the scrape, an unrouted path and a
\* handler that failed, have all completed.
C1_Witness ==
    /\ req = EmptyBag
    /\ arrived >= 3
    /\ Total(requestCount) = arrived
    /\ \E key \in DOMAIN requestCount : key[2] = <<"metrics">>
    /\ \E key \in DOMAIN requestCount : key[2] = <<"nope">> /\ key[3] = Itoa(404)
    /\ \E key \in DOMAIN requestCount : key[3] \in {Itoa(400), Itoa(500)}

\* ---- C2 ----------------------------------------------------------------
\* C2: a get of an identifier that a create call returned, executed while the
\* store is reachable and with no update or delete of that identifier since
\* the create, answers 200 with exactly the entity the create call returned
\* (same identifier, same field values, same creation timestamp); for users
\* and for orders.
C2_GetReturnsCreated ==
    [][\A rq \in BagToSet(req') :
         (Handled(rq) /\ dbUp) =>
           /\ (Handler(rq) = "getUser" /\ IdOf(rq) \in DOMAIN hist.createdUsers)
                => /\ rq.status = StatusOK
                   /\ rq.wire = StatusOK
                   /\ rq.out = [kind |-> "json",
                                val |-> hist.createdUsers[IdOf(rq)]]
           /\ (Handler(rq) = "getOrder" /\ IdOf(rq) \in DOMAIN hist.createdOrders)
                => /\ rq.status = StatusOK
                   /\ rq.wire = StatusOK
                   /\ rq.out = [kind |-> "json",
                                val |-> hist.createdOrders[IdOf(rq)]]]_vars

\* A get has returned the entity of an earlier create call.
C2_Witness ==
    \E rq \in InFlight :
      /\ Handler(rq) = "getUser"
      /\ rq.wire = StatusOK
      /\ IdOf(rq) \in DOMAIN hist.createdUsers
      /\ rq.out.val = hist.createdUsers[IdOf(rq)]
      /\ rq.out.val.name = "A"
      /\ rq.out.val.created_at > 0

\* ---- C3 ----------------------------------------------------------------
\* C3: a create with a decodable body that the store accepts answers 200 with
\* an entity whose mutable fields are the submitted ones (the zero value for
\* a member the body does not carry) and whose id and created_at are those of
\* the row the statement inserted, a row with an identifier no row had
\* before; an id or created_at member of the body has no effect.
C3_CreateReturnsInsertedRow ==
    [][\A rq \in BagToSet(req') :
         (Handled(rq) /\ rq.body.decodable /\ dbUp) =>
           /\ Handler(rq) = "createUser" =>
                /\ rq.wire \in {StatusOK, 201}
                /\ rq.out.kind = "json"
                /\ rq.out.val.name = Member(rq.body, "name", "")
                /\ rq.out.val.email = Member(rq.body, "email", "")
                /\ rq.out.val.id = userSeq'
                /\ rq.out.val.created_at = clock
                /\ \A row \in users : row.id # rq.out.val.id
                /\ users' = users \cup {rq.out.val}
           /\ Handler(rq) = "createOrder" =>
                /\ rq.wire \in {StatusOK, 201}
                /\ rq.out.kind = "json"
                /\ rq.out.val.user_id = Member(rq.body, "user_id", 0)
                /\ rq.out.val.amount = Member(rq.body, "amount", 0)
                /\ rq.out.val.description = Member(rq.body, "description", "")
                /\ rq.out.val.id = orderSeq'
                /\ rq.out.val.created_at = clock
                /\ \A row \in orders : row.id # rq.out.val.id
                /\ orders' = orders \cup {rq.out.val}]_vars

\* A create whose body carries an id and a created_at was answered with the
\* identifier and timestamp of the inserted row instead.
C3_Witness ==
    \E rq \in InFlight :
      /\ Handler(rq) = "createOrder"
      /\ rq.wire = StatusOK
      /\ "id" \in DOMAIN rq.body.obj
      /\ rq.out.val.id # rq.body.obj.id
      /\ rq.out.val.created_at # rq.body.obj.created_at
      /\ rq.out.val.description = "k6 load"
      /\ rq.out.val \in orders

C5_GetUnknownNotFound ==
    [][\A rq \in BagToSet(req') :
         Handled(rq) =>
           /\ Handler(rq) = "getUser" =>
                /\ (dbUp /\ IdOf(rq) \notin 1..userSeq)
                     => rq.wire = StatusNotFound /\ rq.status = StatusNotFound
                /\ rq.wire = StatusNotFound
                     => dbUp /\ \A row \in users : row.id # IdOf(rq)
           /\ Handler(rq) = "getOrder" =>
                /\ (dbUp /\ IdOf(rq) \notin 1..orderSeq)
                     => rq.wire = StatusNotFound /\ rq.status = StatusNotFound
                /\ rq.wire = StatusNotFound
                     => dbUp /\ \A row \in orders : row.id # IdOf(rq)]_vars

\* A get of the never-issued identifier 9 was answered 404 while the table
\* holds rows.
C5_Witness ==
    \E rq \in InFlight :
      /\ Handler(rq) = "getOrder"
      /\ IdOf(rq) = 9
      /\ rq.wire = StatusNotFound
      /\ orders # {}

\* ---- C6 ----------------------------------------------------------------
\* C6: with the store reachable, a delete answers 204 whether or not a row
\* has the identifier; when none has it the tables are left as they were;
\* and after the delete no row has the identifier, so that a second delete of
\* it finds the store as the first left it.
C6_DeleteIdempotent ==
    [][\A rq \in BagToSet(req') :
         (Handled(rq) /\ dbUp) =>
           /\ Handler(rq) = "deleteUser" =>
                /\ rq.wire = StatusNoContent
                /\ rq.status = StatusNoContent
                /\ (\A row \in users : row.id # IdOf(rq))
                     => <<users, orders, userSeq, orderSeq>>'
                          = <<users, orders, userSeq, orderSeq>>
                /\ \A row \in users' : row.id # IdOf(rq)
                /\ \A row \in users : row.id # IdOf(rq) => row \in users'
           /\ Handler(rq) = "deleteOrder" =>
                /\ rq.wire = StatusNoContent
                /\ rq.status = StatusNoContent
                /\ (\A row \in orders : row.id # IdOf(rq))
                     => <<users, orders, userSeq, orderSeq>>'
                          = <<users, orders, userSeq, orderSeq>>
                /\ \A row \in orders' : row.id # IdOf(rq)
                /\ \A row \in orders : row.id # IdOf(rq) => row \in orders']_vars

\* A delete of /api/users/1 was answered 204 a second time, after an earlier
\* one had removed the row.
C6_Witness ==
    \E rq \in InFlight :
      /\ Handler(rq) = "deleteUser"
      /\ rq.wire = StatusNoContent
      /\ IdOf(rq) \in hist.deletedUsers
      /\ <<"DELETE", rq.path, Itoa(204)>> \in DOMAIN requestCount
      /\ <<"POST", <<"api", "users">>, Itoa(200)>> \in DOMAIN requestCount

\* ---- C7 ----------------------------------------------------------------
\* C7: with the store reachable, an update with a decodable body of an
\* identifier no row has answers 204 (not 404), inserts no row and leaves
\* every row of both tables as it was.
C7_UpdateMissingNoContent ==
    [][\A rq \in BagToSet(req') :
         (Handled(rq) /\ dbUp /\ rq.body.decodable) =>
           /\ (Handler(rq) = "updateUser"
                 /\ \A row \in users : row.id # IdOf(rq))
                => /\ rq.wire = StatusNoContent
                   /\ rq.status = StatusNoContent
                   /\ <<users, orders, userSeq, orderSeq>>'
                        = <<users, orders, userSeq, orderSeq>>
           /\ (Handler(rq) = "updateOrder"
                 /\ \A row \in orders : row.id # IdOf(rq))
                => /\ rq.wire = StatusNoContent
                   /\ rq.status = StatusNoContent
                   /\ <<users, orders, userSeq, orderSeq>>'
                        = <<users, orders, userSeq, orderSeq>>]_vars

\* An update of the never-issued /api/orders/9 was answered 204 while the
\* table holds a row.
C7_Witness ==
    \E rq \in InFlight :
      /\ Handler(rq) = "updateOrder"
      /\ IdOf(rq) = 9
      /\ rq.wire = StatusNoContent
      /\ orders # {}
      /\ \A row \in orders : row.id # 9 /\ row.amount = 50

\* ---- C8 ----------------------------------------------------------------
Min(a, b) == IF a <= b THEN a ELSE b

\* What C8 requires of a list answered with success over the rows
\* the table holds: min(ListLimit, number of rows) entities, each a stored
\* row, in strictly descending order of id, none below a row left out.
ListsTop(out, rows) ==
    /\ out.kind = "jsonArray"
    /\ Len(out.val) = Min(ListLimit, Cardinality(rows))
    /\ \A k \in 1..Len(out.val) : out.val[k] \in rows
    /\ \A k \in 1..(Len(out.val) - 1) : out.val[k].id > out.val[k + 1].id
    /\ \A row \in rows :
         (\A k \in 1..Len(out.val) : out.val[k] # row)
            => \A k \in 1..Len(out.val) : out.val[k].id > row.id

\* C8: a list answered with success returns min(100, number of stored rows)
\* entities, the rows with the highest identifiers, in strictly descending
\* order of identifier; with no rows and the store reachable it answers 200
\* with the empty sequence.
C8_ListReturnsTopRows ==
    [][\A rq \in BagToSet(req') :
         Handled(rq) =>
           /\ Handler(rq) = "listUsers" =>
                /\ rq.wire = StatusOK => ListsTop(rq.out, users)
                /\ (dbUp /\ users = {}) => rq.wire = StatusOK
           /\ Handler(rq) = "listOrders" =>
                /\ rq.wire = StatusOK => ListsTop(rq.out, orders)
                /\ (dbUp /\ orders = {}) => rq.wire = StatusOK]_vars

\* ---- C9 ----------------------------------------------------------------
\* C9: a create or update whose body fails to decode is answered 400 and
\* reaches no store and no metric on the way: the tables, the store's clock
\* and the three metrics are as they were when its handler returns, and the
\* request is then recorded under status 400.
C9_DecodeErrorBeforeStore ==
    [][\A rq \in BagToSet(req') :
         (Handled(rq) /\ ~rq.body.decodable
            /\ Handler(rq) \in {"createUser", "updateUser", "createOrder",
                                "updateOrder"}) =>
           /\ rq.wire = StatusBadRequest
           /\ rq.status = StatusBadRequest
           /\ Labels(rq)[3] = <<"4", "0", "0">>
           /\ <<users, orders, userSeq, orderSeq, clock>>'
                = <<users, orders, userSeq, orderSeq, clock>>
           /\ dbQueryDuration' = dbQueryDuration
           /\ requestDuration' = requestDuration
           /\ requestCount' = requestCount]_vars

\* An update with an undecodable body was answered 400 and no statement has
\* been sent to the store.
C9_Witness ==
    \E rq \in InFlight :
      /\ Handler(rq) = "updateOrder"
      /\ ~rq.body.decodable
      /\ rq.wire = StatusBadRequest
      /\ dbQueryDuration = 0
      /\ arrived >= 2

\* ---- C10 ---------------------------------------------------------------
\* The identifier and creation timestamp of each row.
Keys(rows) == { <<row.id, row.created_at>> : row \in rows }

\* C10: no step changes the creation timestamp of a row that stays stored,
\* no two rows share an identifier, and an update (whatever id or created_at
\* its body carries) leaves the identifiers and creation timestamps of the
\* table's rows, and the whole other table, as they were: it changes only
\* name and email of a user, user_id, amount and description of an order.
C10_IdAndCreatedAtImmutable ==
    [][/\ \A old \in users : \A new \in users' :
            new.id = old.id => new.created_at = old.created_at
       /\ \A old \in orders : \A new \in orders' :
            new.id = old.id => new.created_at = old.created_at
       /\ \A a, b \in users' : a.id = b.id => a = b
       /\ \A a, b \in orders' : a.id = b.id => a = b
       /\ \A rq \in BagToSet(req') :
            Handled(rq) =>
              /\ Handler(rq) = "updateUser" =>
                   /\ Keys(users') = Keys(users)
                   /\ Cardinality(users') = Cardinality(users)
                   /\ \A new \in users' :
                        new.id # IdOf(rq) => new \in users
                   /\ <<orders, userSeq, orderSeq>>' = <<orders, userSeq, orderSeq>>
              /\ Handler(rq) = "updateOrder" =>
                   /\ Keys(orders') = Keys(orders)
                   /\ Cardinality(orders') = Cardinality(orders)
                   /\ \A new \in orders' :
                        new.id # IdOf(rq) => new \in orders
                   /\ <<users, userSeq, orderSeq>>' = <<users, userSeq, orderSeq>>]_vars

\* An update whose body carries id 8 and created_at 9 has rewritten the name
\* of row 1, which keeps its identifier and the timestamp the store gave it.
C10_Witness ==
    \E rq \in InFlight :
      /\ Handler(rq) = "updateUser"
      /\ rq.wire = StatusNoContent
      /\ rq.body.obj.id = 8
      /\ \E row \in users :
           /\ row.id = IdOf(rq)
           /\ row.name = "B"
           /\ row.created_at # rq.body.obj.created_at
           /\ hist.createdUsers = NoEntities

\* ---- C11 ---------------------------------------------------------------
\* The handlers whose route carries an identifier.
IdRoutes ==
    { "getUser", "updateUser", "deleteUser", "getOrder", "updateOrder",
      "deleteOrder" }

\* C11: two recorded requests with the same method and the same final status
\* that the router dispatched to the same route with an identifier are
\* counted, and their durations observed, under one and the same
\* (method, path, status) series.
C11_KeyedByPathTemplate ==
    \A vec \in {requestCount, requestDuration} :
      \A k1, k2 \in DOMAIN vec :
        (/\ k1[1] = k2[1]
         /\ k1[3] = k2[3]
         /\ Route(k1[1], k1[2]) \in IdRoutes
         /\ Route(k1[1], k1[2]) = Route(k2[1], k2[2]))
          => k1 = k2

\* ---- C12 ---------------------------------------------------------------
\* C12: the readiness loop pings at most 10 times (a ping is made only after
\* fewer than 10 failed ones, and each failed ping counts); a successful ping
\* ends the loop at once and writes no log line; a failed ping writes exactly
\* one line, "waiting for db..." with its attempt number, and nothing else
\* writes to the log while the loop runs; once the loop has ended no ping is
\* made again; and no request is routed or recorded before the loop has
\* ended and the server listens.
C12_ProbeBoundedBeforeServing ==
    [][/\ mainPc = "probe" => i \in 0..10
       /\ Ping =>
            /\ mainPc = "probe"
            /\ i < 10
            /\ dbUp => mainPc' # "probe" /\ lastLog' = lastLog
            /\ ~dbUp => /\ mainPc' = "probe"
                        /\ i' = i + 1
                        /\ lastLog' = <<"waiting for db...", i>>
       /\ (mainPc = "probe" /\ lastLog' # lastLog) => (Ping /\ ~dbUp)
       /\ mainPc # "probe" => mainPc' # "probe"
       /\ (arrived' # arrived \/ req' # req \/ requestCount' # requestCount)
            => (mainPc = "serving" /\ mainPc' = "serving")
       /\ mainPc # "serving" => (arrived = 0 /\ req = EmptyBag)]_vars

\* Ten pings have failed, the last one logged as attempt 9, and nothing has
\* been routed.
C12_Witness ==
    /\ mainPc = "probe"
    /\ i = 10
    /\ lastLog = <<"waiting for db...", 9>>
    /\ ~hist.storeSeenUp
    /\ arrived = 0

C14_ListNeverDropsRows ==
    [][\A rq \in BagToSet(req') :
         Handled(rq) =>
           /\ Handler(rq) = "listUsers" =>
                /\ ~dbUp => /\ rq.wire = StatusInternalServerError
                            /\ rq.out.kind = "text"
                /\ rq.wire # StatusInternalServerError =>
                     /\ rq.out.kind = "jsonArray"
                     /\ Len(rq.out.val) = Len(SelectUsers)
           /\ Handler(rq) = "listOrders" =>
                /\ ~dbUp => /\ rq.wire = StatusInternalServerError
                            /\ rq.out.kind = "text"
                /\ rq.wire # StatusInternalServerError =>
                     /\ rq.out.kind = "jsonArray"
                     /\ Len(rq.out.val) = Len(SelectOrders)]_vars

\* ---- C15 ---------------------------------------------------------------
\* The handlers that send their statement whatever the request carries, and
\* those that decode a body first.
AlwaysQuery ==
    { "listUsers", "getUser", "deleteUser", "listOrders", "getOrder",
      "deleteOrder" }

DecodeThenQuery == { "createUser", "updateUser", "createOrder", "updateOrder" }

\* C15: a list, get or delete, and a create or update whose body decodes,
\* sends exactly one statement to the store and adds exactly one observation
\* to the store-latency histogram, whether the store executes the statement
\* or fails it; every other request sends none and adds none; and the
\* histogram grows by nothing else.
C15_OneStatementOneObservation ==
    [][/\ \A rq \in BagToSet(req') :
            Handled(rq) =>
              IF \/ Handler(rq) \in AlwaysQuery
                 \/ Handler(rq) \in DecodeThenQuery /\ rq.body.decodable
              THEN /\ Len(rq.stmts) = 1
                   /\ dbQueryDuration' = dbQueryDuration + 1
              ELSE /\ rq.stmts = <<>>
                   /\ dbQueryDuration' = dbQueryDuration
       /\ dbQueryDuration' # dbQueryDuration
            => \E rq \in BagToSet(req') : Handled(rq) /\ rq.stmts # <<>>]_vars

\* Two requests are in flight, one whose statement the store failed and one
\* whose statement it executed, each with one statement sent, and the
\* histogram holds one observation for each.
C15_Witness ==
    /\ dbQueryDuration = 2
    /\ arrived = 2
    /\ \E a, b \in InFlight :
         /\ a.wire = StatusInternalServerError
         /\ Len(a.stmts) = 1
         /\ Handler(a) = "deleteUser"
         /\ b.wire = StatusOK
         /\ Len(b.stmts) = 1
         /\ Handler(b) = "createUser"

\* ---- C16 ---------------------------------------------------------------
\* C16: when a handler returns, the status held by the recorder is the status
\* sent to the client, 200 where the handler wrote a body without a status;
\* the request counter and the duration histogram change only in a step that
\* records a request whose handler has returned, under that request's method,
\* path and delivered status, and that step takes the request out of flight
\* and leaves the responses of the others as they are.
C16_RecordedStatusIsDelivered ==
    [][/\ \A rq \in BagToSet(req') :
            Handled(rq) =>
              /\ rq.wire # 0
              /\ rq.status = rq.wire
              /\ rq.out.kind \in {"json", "jsonArray", "metrics"}
                   => rq.status = 200
       /\ (requestCount' # requestCount \/ requestDuration' # requestDuration) =>
            \E rq \in BagToSet(req) :
              LET key == <<rq.method, rq.path, Itoa(rq.wire)>>
              IN  /\ req' (+) SetToBag({rq}) = req
                  /\ arrived' = arrived
                  /\ key \in DOMAIN requestCount'
                  /\ requestCount'[key] =
                       (IF key \in DOMAIN requestCount
                        THEN requestCount[key] ELSE 0) + 1
                  /\ \A k \in DOMAIN requestCount :
                       k # key => requestCount'[k] = requestCount[k]
                  /\ requestDuration' = requestCount']_vars

\* Requests answered 405 and 404 by the router and 200 by the scrape handler
\* have been recorded under those statuses, and one that a handler answered
\* 400 is in flight with 400 held by the recorder.
C16_Witness ==
    /\ \E rq \in InFlight : rq.wire = 400 /\ rq.status = 400
    /\ \E key \in DOMAIN requestCount : key[3] = Itoa(405)
    /\ \E key \in DOMAIN requestCount : key[3] = Itoa(404)
    /\ \E key \in DOMAIN requestCount : key[3] = Itoa(200)

\* ---- C17 ---------------------------------------------------------------
\* C17: with the store reachable, an update with a decodable body of an
\* identifier a row has answers 204 and replaces the row's mutable fields as
\* a whole: afterwards name and email of the user (user_id, amount and
\* description of the order) are the members of the body, the zero value
\* ("" or 0) for a member the body does not carry; the row keeps its id and
\* created_at, and every other row of both tables is as it was.
C17_UpdateReplacesWholeRecord ==
    [][\A rq \in BagToSet(req') :
         (Handled(rq) /\ dbUp /\ rq.body.decodable) =>
           /\ Handler(rq) = "updateUser" =>
                \A old \in users :
                  old.id = IdOf(rq) =>
                    /\ rq.wire = StatusNoContent
                    /\ users' = (users \ {old}) \cup
                         {[id |-> old.id,
                           name |-> Member(rq.body, "name", ""),
                           email |-> Member(rq.body, "email", ""),
                           created_at |-> old.created_at]}
                    /\ orders' = orders
           /\ Handler(rq) = "updateOrder" =>
                \A old \in orders :
                  old.id = IdOf(rq) =>
                    /\ rq.wire = StatusNoContent
                    /\ orders' = (orders \ {old}) \cup
                         {[id |-> old.id,
                           user_id |-> Member(rq.body, "user_id", 0),
                           amount |-> Member(rq.body, "amount", 0),
                           description |-> Member(rq.body, "description", ""),
                           created_at |-> old.created_at]}
                    /\ users' = users]_vars

\* An update whose body carries no email was answered 204 and the row, which
\* was created with an email, now has the body's name and the empty email.
C17_Witness ==
    \E rq \in InFlight :
      /\ Handler(rq) = "updateUser"
      /\ rq.wire = StatusNoContent
      /\ "email" \notin DOMAIN rq.body.obj
      /\ <<"POST", <<"api", "users">>, Itoa(200)>> \in DOMAIN requestCount
      /\ \E row \in users :
           /\ row.id = IdOf(rq)
           /\ row.name = "B"
           /\ row.email = ""

\* ---- C18 ---------------------------------------------------------------
\* The path identifiers among the inputs for which Atoi returns an error.
Unparsable == {NotANumber, DigitThenLetter, TooLarge}

\* The last argument of the one statement a request sent: the identifier of
\* a get, update or delete.
StatementId(rq) == rq.stmts[1][2][Len(rq.stmts[1][2])]

\* C18: a get, update or delete whose path identifier does not parse as an
\* integer is not answered 400 on that account (only an update whose body
\* does not decode is), and does what the same request on identifier 0
\* does: it sends the statement with identifier 0, is answered as the
\* lookup, update or delete of identifier 0 is (500 from an unreachable
\* store, else 404 or the row 0 for a get, 204 for an update or delete), and
\* leaves every row whose identifier is not 0 as it was.
C18_UnparsableIdIsZero ==
    [][\A rq \in BagToSet(req') :
         (Handled(rq) /\ Handler(rq) \in IdRoutes
            /\ PathId(rq.path) \in Unparsable) =>
           /\ rq.wire = StatusBadRequest
                => (Handler(rq) \in DecodeThenQuery /\ ~rq.body.decodable)
           /\ rq.stmts # <<>> =>
                /\ StatementId(rq) = 0
                /\ ~dbUp => rq.wire = StatusInternalServerError
                /\ (dbUp /\ Handler(rq) = "getUser") =>
                     IF \E row \in users : row.id = 0
                     THEN rq.wire = StatusOK /\ rq.out.val.id = 0
                     ELSE rq.wire = StatusNotFound
                /\ (dbUp /\ Handler(rq) = "getOrder") =>
                     IF \E row \in orders : row.id = 0
                     THEN rq.wire = StatusOK /\ rq.out.val.id = 0
                     ELSE rq.wire = StatusNotFound
                /\ (dbUp /\ Handler(rq) \notin {"getUser", "getOrder"})
                     => rq.wire = StatusNoContent
                /\ \A row \in users \cup users' :
                     row.id # 0 => row \in users \cap users'
                /\ \A row \in orders \cup orders' :
                     row.id # 0 => row \in orders \cap orders'
                /\ <<userSeq, orderSeq>>' = <<userSeq, orderSeq>>]_vars

\* ---- C19 ---------------------------------------------------------------
\* C19: an update never brings back a row a delete removed.  When an update
\* and a delete of the same identifier are in flight together, both answered
\* 204, and the delete statement was executed on an identifier the store had
\* issued, no row has that identifier, in whichever order the store executed
\* the two statements; and no row ever has an identifier on which a delete
\* statement was executed after the store issued it.
C19_UpdateNeverRecreates ==
    /\ \A u, d \in InFlight :
         (/\ Handler(u) = "updateUser" /\ Handler(d) = "deleteUser"
          /\ u.wire = StatusNoContent /\ d.wire = StatusNoContent
          /\ IdOf(u) = IdOf(d)
          /\ IdOf(d) \in hist.deletedUsers)
           => \A row \in users : row.id # IdOf(d)
    /\ \A u, d \in InFlight :
         (/\ Handler(u) = "updateOrder" /\ Handler(d) = "deleteOrder"
          /\ u.wire = StatusNoContent /\ d.wire = StatusNoContent
          /\ IdOf(u) = IdOf(d)
          /\ IdOf(d) \in hist.deletedOrders)
           => \A row \in orders : row.id # IdOf(d)
    /\ \A row \in users : row.id \notin hist.deletedUsers
    /\ \A row \in orders : row.id \notin hist.deletedOrders

\* An update and a delete of /api/users/1, a row that a create had inserted,
\* are in flight together, both answered 204, and the table is empty.
C19_Witness ==
    /\ \E u, d \in InFlight :
         /\ Handler(u) = "updateUser" /\ Handler(d) = "deleteUser"
         /\ u.wire = StatusNoContent /\ d.wire = StatusNoContent
         /\ IdOf(u) = 1 /\ IdOf(d) = 1
    /\ 1 \in hist.deletedUsers
    /\ userSeq = 1
    /\ users = {}
    /\ <<"POST", <<"api", "users">>, Itoa(200)>> \in DOMAIN requestCount

\* ---- C20 ---------------------------------------------------------------
ReadOnly == { "getUser", "listUsers", "getOrder", "listOrders" }

\* C20: a get or a list, whatever it is answered and whatever else is in
\* flight, leaves both tables and both identifier sequences as they were; it
\* sends one SELECT, adds one observation to the store-latency histogram and
\* none to the request metrics while it is handled; and recording it adds
\* one observation to the request metrics and changes nothing else.
C20_GetAndListReadOnly ==
    [][/\ \A rq \in BagToSet(req') :
            (Handled(rq) /\ Handler(rq) \in ReadOnly) =>
              /\ <<users, orders, userSeq, orderSeq>>'
                   = <<users, orders, userSeq, orderSeq>>
              /\ Len(rq.stmts) = 1
              /\ rq.stmts[1][1] \in
                   { "SELECT FROM users", "SELECT FROM users WHERE id",
                     "SELECT FROM orders", "SELECT FROM orders WHERE id" }
              /\ dbQueryDuration' = dbQueryDuration + 1
              /\ requestCount' = requestCount
              /\ requestDuration' = requestDuration
       /\ \A rq \in BagToSet(req) :
            (CopiesIn(rq, req') < CopiesIn(rq, req)
               /\ Handler(rq) \in ReadOnly) =>
              /\ <<users, orders, userSeq, orderSeq, dbQueryDuration>>'
                   = <<users, orders, userSeq, orderSeq, dbQueryDuration>>
              /\ Total(requestCount') = Total(requestCount) + 1
              /\ Total(requestDuration') = Total(requestDuration) + 1]_vars

\* A get answered 404 and a list answered 200 have been recorded and a get
\* answered 500 is in flight, with a row stored all along.
C20_Witness ==
    /\ users # {}
    /\ \E rq \in InFlight :
         Handler(rq) = "listUsers" /\ rq.wire = StatusInternalServerError
    /\ <<"GET", <<"api", "users">>, Itoa(200)>> \in DOMAIN requestCount
    /\ <<"POST", <<"api", "users">>, Itoa(200)>> \in DOMAIN requestCount

====
